---- MODULE Spec2Model ----
(***************************************************************************)
(* Longevity Ledger: the per-profile ledger, its persistence to            *)
(* localStorage through React effects, its derived views and its JSON      *)
(* import/export, in the two source variants of the repository:            *)
(*   "full"    src/src/App.tsx       (LongevityLedgerApp)                  *)
(*   "minimal" src/unnamed/part_000  (App, the "compile-safe" version)     *)
(***************************************************************************)
EXTENDS Integers, Sequences, FiniteSets, TLC

VARIABLES
  variant,   \* which source variant runs: "full" or "minimal"
  profile,   \* useState<Profile>: the active profile
  tab,       \* the open tab
  db,        \* useState<Ledger>: the in-memory ledger (any JS value after an import)
  dbRef,     \* "EMPTY" when db is the EMPTY constant itself (Object.is), else "fresh"
  storage,   \* localStorage: storage key -> text, or NoItem
  queue,     \* passive effects of the last commit that have not run yet
  pendingDb, \* setDb(...) called by the load effect, applied by the next render
  crashed,   \* an error escaped a render or an effect: React unmounted the tree
  alerted,   \* the alert() raised by the last event
  raw,       \* the raw-text editor of the import/export panel
  reading,   \* FileReader: the text of a file being read (full variant)
  artifact,  \* content of the last downloaded file (full variant)
  now,       \* today(): the calendar date of the clock
  last,      \* the last user event (history)
  snap,      \* at the last profile switch: the target and its slot before the switch (history)
  left,      \* per profile: the in-memory ledger when the profile was last left (history)
  events,    \* number of user events so far (bounds the exploration)
  other,     \* a second instance of the application (another browser tab): its state
  saver      \* which instance wrote localStorage last: "here", "there" or "none" (history)

vars == <<variant, profile, tab, db, dbRef, storage, queue, pendingDb, crashed,
          alerted, raw, reading, artifact, now, last, snap, left, events, other, saver>>

----------------------------------------------------------------------------
(* Bounds of the exploration. *)
NumIds == 2
NumDates == 2
MaxRecs == 2
MaxEvents == 3

Ids == 1..NumIds
Dates == 1..NumDates

----------------------------------------------------------------------------
(* Program constants. *)
PROFILES == {"Paul", "Claire"}
TABS == {"dashboard", "bloods", "imaging", "vitals", "fitness", "meds", "notes",
         "importExport"}
Collections == {"bloods", "imaging", "vitals", "fitness", "meds", "notes"}
Variants == {"full", "minimal"}

(* A slip: the legacy constant KEY used as the storage key of every profile. *)
storageKeyLegacy(p) == <<"longevity-ledger", "">>

storageKey(p) == <<"longevity-ledger-", p>>
Keys == {storageKey(p) : p \in PROFILES}

----------------------------------------------------------------------------
(* JS values.  A field value is tagged: a string (id, date, name, text: n  *)
(* indexes the string; dates compare as their ISO strings do), a number,   *)
(* NaN, or null.  An absent (undefined) field is not in the record's       *)
(* domain.                                                                 *)
Str(n) == [k |-> "string", n |-> n]
Num(n) == [k |-> "number", n |-> n]
NaN == [k |-> "NaN", n |-> 0]
Null == [k |-> "null", n |-> 0]

(* The db value: an object with some collections, or (after an import of   *)
(* a document of another shape) null or a number.                          *)
JsObj(c) == [k |-> "object", c |-> c]
JsNull == [k |-> "null", c |-> <<>>]
JsNum == [k |-> "number", c |-> <<>>]

EMPTY == JsObj([c \in Collections |-> <<>>])

----------------------------------------------------------------------------
(* Texts.  A text is JSON (the value it denotes and the indentation it was *)
(* written with), not JSON at all, or the empty string.  NoItem is what    *)
(* localStorage.getItem returns for a key that was never set.              *)
JsonText(v, indent) == [kind |-> "json", indent |-> indent, v |-> v]
GarbageText == [kind |-> "garbage", indent |-> 0, v |-> JsNull]
EmptyText == [kind |-> "empty", indent |-> 0, v |-> JsNull]
NoItem == [kind |-> "absent", indent |-> 0, v |-> JsNull]

(* JSON.stringify of a field value: NaN is written as null. *)
StringifyField(x) == IF x.k = "NaN" THEN Null ELSE x

StringifyRecord(r) == [f \in DOMAIN r |-> StringifyField(r[f])]

(* The JSON value JSON.stringify writes for a db value. *)
JsonOf(v) ==
  IF v.k = "object"
    THEN JsObj([c \in DOMAIN v.c |->
                 [i \in 1..Len(v.c[c]) |-> StringifyRecord(v.c[c][i])]])
    ELSE v

JSONstringify(v, indent) == JsonText(JsonOf(v), indent)

(* A slip: a parse that checks the shape and falls back to an empty ledger. *)
JSONparseChecked(t) ==
  IF t.v.k = "object" /\ DOMAIN t.v.c = {"bloods", "imaging", "vitals", "fitness", "meds", "notes"}
    THEN t.v
    ELSE JsObj([c \in {"bloods", "imaging", "vitals", "fitness", "meds", "notes"} |-> <<>>])

(* JSON.parse throws a SyntaxError on a text that is not JSON (the empty   *)
(* string included); otherwise it returns the value the text denotes.      *)
ParseThrows(t) == t.kind # "json"
JSONparse(t) == t.v

(* raw ? ... : ... in the load code: null and "" are falsy. *)
Truthy(t) == t.kind \notin {"absent", "empty"}

----------------------------------------------------------------------------
(* Loading a profile's slot. *)

(* loadFor of the full variant: the parsed slot, or EMPTY when the slot is *)
(* falsy or does not parse.  The result says whether it is the EMPTY       *)
(* constant itself.                                                        *)
loadFor(st, p) ==
  LET item == st[storageKey(p)] IN
  IF Truthy(item) /\ ~ParseThrows(item)
    THEN [val |-> JSONparse(item), ref |-> "fresh", threw |-> FALSE]
    ELSE [val |-> EMPTY, ref |-> "EMPTY", threw |-> FALSE]

(* The load effect of the minimal variant: no try/catch around JSON.parse. *)
loadMinimal(st, p) ==
  LET item == st[storageKey(p)] IN
  IF Truthy(item)
    THEN IF ParseThrows(item)
           THEN [val |-> EMPTY, ref |-> "EMPTY", threw |-> TRUE]
           ELSE [val |-> JSONparse(item), ref |-> "fresh", threw |-> FALSE]
    ELSE [val |-> EMPTY, ref |-> "EMPTY", threw |-> FALSE]

load(v, st, p) == IF v = "full" THEN loadFor(st, p) ELSE loadMinimal(st, p)

(* A slip: a save that leaves a slot another instance has written. *)
saveForIfAbsent(st, p, data) ==
  IF st[<<"longevity-ledger-", p>>].kind = "json"
    THEN st
    ELSE [st EXCEPT ![<<"longevity-ledger-", p>>] = [kind |-> "json", indent |-> 0, v |-> JsonOf(data)]]

(* saveFor / the persist effect: localStorage.setItem(key, JSON.stringify(data)). *)
saveFor(st, p, data) == [st EXCEPT ![storageKey(p)] = JSONstringify(data, 0)]

----------------------------------------------------------------------------
(* Derived views. *)

(* a.date.localeCompare(b.date) and b.date.localeCompare(a.date) on ISO dates. *)
cmpAsc(a, b) == a.date.n - b.date.n

(* A slip: the history comparator written in the ascending direction. *)
cmpDescAscending(a, b) == a.date.n - b.date.n

cmpDesc(a, b) == b.date.n - a.date.n

(* A slip: an insertion that puts x before the elements it ties with. *)
RECURSIVE InsertUnstable(_, _, _)
InsertUnstable(x, s, order) ==
  IF s = <<>> THEN <<x>>
  ELSE IF (IF order = "asc" THEN cmpAsc(Head(s), x) ELSE cmpDesc(Head(s), x)) >= 0
    THEN <<x>> \o s
  ELSE <<Head(s)>> \o InsertUnstable(x, Tail(s), order)

(* The comparator handed to sort: "asc" for latestOf and the trend,        *)
(* "desc" for the history tables.                                          *)
Compare(a, b, order) == IF order = "asc" THEN cmpAsc(a, b) ELSE cmpDesc(a, b)

(* Array.prototype.sort is stable: x, which came after every element of    *)
(* the sorted prefix s, goes before the first element that compares        *)
(* greater than it.                                                        *)
RECURSIVE InsertStable(_, _, _)
InsertStable(x, s, order) ==
  IF s = <<>> THEN <<x>>
  ELSE IF Compare(Head(s), x, order) > 0 THEN <<x>> \o s
  ELSE <<Head(s)>> \o InsertStable(x, Tail(s), order)

RECURSIVE StableSort(_, _)
StableSort(s, order) ==
  IF s = <<>> THEN <<>>
  ELSE InsertStable(s[Len(s)], StableSort(SubSeq(s, 1, Len(s) - 1), order), order)

(* .at(-1): the last element, or undefined (the empty sequence here). *)
AtLast(s) == IF s = <<>> THEN <<>> ELSE <<s[Len(s)]>>

(* latestBlood / latestVitals: [...coll].sort(ascending by date).at(-1). *)
latestOf(coll) == AtLast(StableSort(coll, "asc"))

(* A slip: the history built by reversing the ascending sort. *)
sortedDescendingReversed(coll) ==
  LET s == StableSort(coll, "asc") IN [i \in 1..Len(s) |-> s[Len(s) + 1 - i]]

(* The history tables: [...coll].sort(descending by date). *)
sortedDescending(coll) == StableSort(coll, "desc")

(* bloodTrend: ascending by date, projected on date and the charted values *)
(* (an absent value stays absent).                                         *)
bloodTrend(coll) ==
  LET s == StableSort(coll, "asc") IN
  [i \in 1..Len(s) |-> [f \in DOMAIN s[i] \cap {"date", "apoB"} |-> s[i][f]]]

(* summary.lastApoB of the minimal variant: db.bloods.at(-1)?.apoB ?? null. *)
recentBlood(coll) == AtLast(coll)

(* mgdl(v): v === undefined ? "--" : v.toFixed(0) throws a TypeError when   *)
(* v is neither undefined nor a number (NaN is a number).                  *)
mgdlThrows(rec) ==
  /\ rec # <<>>
  /\ "apoB" \in DOMAIN rec[1]
  /\ rec[1].apoB.k \notin {"number", "NaN"}

(* Whether rendering throws.  Full variant: the three useMemo of           *)
(* LongevityLedgerApp read db.bloods and db.vitals on every render; the    *)
(* dashboard formats the latest blood panel; each history tab spreads its  *)
(* own collection.  Minimal variant: summary reads db.bloods.at(-1) and    *)
(* the length of every collection on every render.                         *)
RenderThrowsFull(t, v) ==
  \/ v.k = "null"
  \/ "bloods" \notin DOMAIN v.c
  \/ "vitals" \notin DOMAIN v.c
  \/ t \in Collections /\ t \notin DOMAIN v.c
  \/ t = "dashboard" /\ mgdlThrows(latestOf(v.c.bloods))

RenderThrowsMinimal(t, v) ==
  \/ v.k = "null"
  \/ \E c \in Collections : c \notin DOMAIN v.c

RenderThrows(vr, t, v) ==
  IF vr = "full" THEN RenderThrowsFull(t, v) ELSE RenderThrowsMinimal(t, v)

----------------------------------------------------------------------------
(* Form inputs. *)

(* parseFloat of a number input's text: "" gives NaN. *)
NumberInputs == {"", "85"}
parseFloat(text) == IF text = "" THEN NaN ELSE Num(85)

(* numberOrEmpty(v) is v ?? undefined: only null (or undefined) becomes    *)
(* undefined, here the empty sequence; NaN passes through.                 *)
numberOrEmpty(v) == IF v.k = "null" THEN <<>> ELSE <<v>>

(* What a number input leaves in the form: nothing when it was never       *)
(* touched, else numberOrEmpty(parseFloat(e.target.value)) of its last     *)
(* text.                                                                   *)
NumberFieldStates ==
  {<<>>} \cup {numberOrEmpty(parseFloat(text)) : text \in NumberInputs}

(* Text inputs of the medication name and the note text; trim() removes    *)
(* the blanks.                                                             *)
TextInputs == {"", " ", "a"}
trim(text) == IF text = " " THEN "" ELSE text
TextValue(text) == Str(IF text = "a" THEN 1 ELSE IF text = " " THEN 2 ELSE 0)

WithField(r, f, opt) ==
  IF opt = <<>> THEN r
  ELSE [g \in DOMAIN r \cup {f} |-> IF g = f THEN opt[1] ELSE r[g]]

BaseRecord(id, date) == [id |-> Str(id), date |-> Str(date)]

(* The records the form of collection c can hold when Save is clicked. *)
FormRecords(c) ==
  IF c = "bloods"
    THEN {WithField(BaseRecord(id, d), "apoB", a) :
            id \in Ids, d \in Dates, a \in NumberFieldStates}
  ELSE IF c = "meds"
    THEN {WithField(BaseRecord(id, d), "name", <<TextValue(t)>>) :
            id \in Ids, d \in Dates, t \in TextInputs}
  ELSE IF c = "notes"
    THEN {WithField(BaseRecord(id, d), "text", <<TextValue(t)>>) :
            id \in Ids, d \in Dates, t \in TextInputs}
  ELSE {BaseRecord(id, d) : id \in Ids, d \in Dates}

(* A slip: the test made on the text as typed, without trim(). *)
RejectedUntrimmed(c, form) ==
  \/ c = "meds" /\ form.name = TextValue("")
  \/ c = "notes" /\ form.text = TextValue("")

(* if (!form.name.trim()) return;  if (!form.text.trim()) return; *)
Rejected(c, form) ==
  \/ c = "meds" /\ form.name \in {TextValue(t) : t \in {u \in TextInputs : trim(u) = ""}}
  \/ c = "notes" /\ form.text \in {TextValue(t) : t \in {u \in TextInputs : trim(u) = ""}}

(* Pure ledger transformations. *)

(* A slip: the new record put in front of the collection. *)
addRecordFront(v, c, rec) ==
  [k |-> "object", c |-> [v.c EXCEPT ![c] = <<rec>> \o @]]

(* { ...p, c: [...p.c, form] } *)
addRecord(v, c, rec) == JsObj([v.c EXCEPT ![c] = Append(@, rec)])

(* A slip: a delete that removes only the first record of the identifier. *)
RECURSIVE FilterFirst(_, _)
FilterFirst(s, id) ==
  IF s = <<>> THEN <<>>
  ELSE IF Head(s).id = [k |-> "string", n |-> id] THEN Tail(s)
  ELSE <<Head(s)>> \o FilterFirst(Tail(s), id)

(* p.c.filter((b) => b.id !== id) *)
RECURSIVE Filter(_, _)
Filter(s, id) ==
  IF s = <<>> THEN <<>>
  ELSE IF Head(s).id = Str(id) THEN Filter(Tail(s), id)
  ELSE <<Head(s)>> \o Filter(Tail(s), id)

deleteRecord(v, c, id) == JsObj([v.c EXCEPT ![c] = Filter(@, id)])

RECURSIVE SumLen(_, _)
SumLen(f, S) ==
  IF S = {} THEN 0
  ELSE LET c == CHOOSE x \in S : TRUE IN Len(f[c]) + SumLen(f, S \ {c})

(* Number of records of a db value. *)
Size(v) == IF v.k = "object" THEN SumLen(v.c, DOMAIN v.c) ELSE 0

----------------------------------------------------------------------------
(* Documents and slot contents of the exploration. *)

(* A ledger saved by an earlier session. *)
StoredPanel == [id |-> Str(1), date |-> Str(1), apoB |-> Num(85)]
StoredLedger == addRecord(EMPTY, "bloods", StoredPanel)

(* A ledger document: two panels of the same identifier, the later-dated   *)
(* one first.                                                              *)
DocPanelNew == [id |-> Str(1), date |-> Str(2), apoB |-> Num(85)]
DocPanelOld == [id |-> Str(1), date |-> Str(1), apoB |-> Num(70)]
DocLedger == addRecord(addRecord(EMPTY, "bloods", DocPanelNew), "bloods", DocPanelOld)

(* An object with a bloods collection and nothing else. *)
PartialDoc == JsObj([c \in {"bloods"} |-> <<DocPanelNew>>])

(* Texts a user can type into the editor or upload as a file. *)
Docs ==
  {GarbageText, JsonText(JsNull, 0), JsonText(JsNum, 0), JsonText(PartialDoc, 0),
   JsonText(DocLedger, 2)}

(* What a profile's slot can hold when the application starts. *)
InitSlots == {NoItem, GarbageText, JSONstringify(StoredLedger, 0)}

----------------------------------------------------------------------------
(* State of the running application. *)

NoPending == [set |-> FALSE, val |-> JsNull, ref |-> "fresh"]
NoReading == [active |-> FALSE, text |-> NoItem, mounted |-> FALSE]
NoSnap == [target |-> "none", slot |-> NoItem]
NotLeft == <<>>

Quiescent == crashed = "no" /\ queue = <<>> /\ ~pendingDb.set

(* A slip: a save effect whose dependencies leave out db. *)
DbEffectsNoSave(t) ==
  IF variant = "full" /\ t = "importExport" THEN <<"syncRaw">> ELSE <<>>

(* A slip: the save effect declared before the load effect. *)
ProfileEffectsSaveFirst == <<"save", "load">>

(* Effects of a commit in which db changed: the import/export panel, when  *)
(* mounted, syncs its editor (child effects run first), then the save      *)
(* effect runs.                                                            *)
DbEffects(t) ==
  IF variant = "full" /\ t = "importExport" THEN <<"syncRaw", "save">> ELSE <<"save">>

(* Effects of a commit in which profile changed: load, then save. *)
ProfileEffects == <<"load", "save">>

(* A render with the new state: it commits and schedules the effects, or   *)
(* throws, and React unmounts the tree.                                    *)
Commit(t, v, effects) ==
  IF RenderThrows(variant, t, v)
    THEN crashed' = "render" /\ queue' = <<>>
    ELSE crashed' = crashed /\ queue' = effects

(* The state of an instance that has just been mounted: the initial state  *)
(* of its useState hooks, its mount effects not yet run.                   *)
Mounting ==
  [profile |-> "Paul", tab |-> "dashboard", db |-> EMPTY, dbRef |-> "EMPTY",
   queue |-> ProfileEffects, pendingDb |-> NoPending, crashed |-> "no",
   alerted |-> "none", raw |-> EmptyText, reading |-> NoReading, artifact |-> NoItem]

Init ==
  /\ variant \in Variants
  /\ profile = "Paul"
  /\ tab = "dashboard"
  /\ db = EMPTY
  /\ dbRef = "EMPTY"
  /\ storage \in [Keys -> InitSlots]
  /\ queue = ProfileEffects
  /\ pendingDb = NoPending
  /\ crashed = "no"
  /\ alerted = "none"
  /\ raw = EmptyText
  /\ reading = NoReading
  /\ artifact = NoItem
  /\ now = 1
  /\ last = "mount"
  /\ snap = NoSnap
  /\ left = [p \in PROFILES |-> NotLeft]
  /\ events = 0
  /\ other = Mounting
  /\ saver = "none"

----------------------------------------------------------------------------
(* Effects. *)

(* useEffect(() => setDb(loadFor(profile)), [profile]).  setDb with the    *)
(* value db already is (EMPTY over EMPTY) schedules nothing.  An error     *)
(* thrown by the effect is captured, the remaining effects of the commit   *)
(* still run, and the tree is unmounted.                                   *)
RunLoad ==
  /\ queue # <<>> /\ Head(queue) = "load"
  /\ LET r == load(variant, storage, profile) IN
       IF r.threw
         THEN crashed' = "effect" /\ pendingDb' = pendingDb
         ELSE /\ crashed' = crashed
              /\ pendingDb' = IF r.ref = "EMPTY" /\ dbRef = "EMPTY"
                                THEN NoPending
                                ELSE [set |-> TRUE, val |-> r.val, ref |-> r.ref]
  /\ queue' = Tail(queue)
  /\ UNCHANGED <<variant, other, saver, profile, tab, db, dbRef, storage, alerted, raw, reading,
                 artifact, now, last, snap, left, events>>

(* useEffect(() => saveFor(profile, db), [db, profile]). *)
RunSave ==
  /\ queue # <<>> /\ Head(queue) = "save"
  /\ storage' = saveFor(storage, profile, db)
  /\ queue' = Tail(queue)
  /\ saver' = "here"
  /\ UNCHANGED <<variant, other, profile, tab, db, dbRef, pendingDb, crashed, alerted, raw,
                 reading, artifact, now, last, snap, left, events>>

(* ImportExport: useEffect(() => setRaw(JSON.stringify(db, null, 2)), [db]). *)
RunSyncRaw ==
  /\ queue # <<>> /\ Head(queue) = "syncRaw"
  /\ raw' = JSONstringify(db, 2)
  /\ queue' = Tail(queue)
  /\ UNCHANGED <<variant, other, saver, profile, tab, db, dbRef, storage, pendingDb, crashed, alerted,
                 reading, artifact, now, last, snap, left, events>>

(* The render that applies the setDb of the load effect. *)
Rerender ==
  /\ queue = <<>> /\ pendingDb.set /\ crashed = "no"
  /\ db' = pendingDb.val
  /\ dbRef' = pendingDb.ref
  /\ pendingDb' = NoPending
  /\ Commit(tab, pendingDb.val, DbEffects(tab))
  /\ UNCHANGED <<variant, other, saver, profile, tab, storage, alerted, raw, reading, artifact, now,
                 last, snap, left, events>>

----------------------------------------------------------------------------
(* User events.  A handler runs when the effects of the previous commit    *)
(* have been flushed.                                                      *)

(* Tab buttons.  In the full variant the tab's component is mounted anew:  *)
(* ImportExport starts its editor from JSON.stringify(db, null, 2), and a  *)
(* FileReader started by the panel that is left outlives it.               *)
SetTab(t) ==
  /\ Quiescent /\ events' = events + 1
  /\ t # tab
  /\ tab' = t
  /\ raw' = IF variant = "minimal" THEN raw
            ELSE IF t = "importExport" THEN JSONstringify(db, 2) ELSE EmptyText
  /\ reading' = IF reading.active THEN [reading EXCEPT !.mounted = FALSE] ELSE reading
  /\ Commit(t, db, <<>>)
  /\ alerted' = "none"
  /\ last' = "setTab"
  /\ UNCHANGED <<variant, other, saver, profile, db, dbRef, storage, pendingDb, artifact, now, snap,
                 left>>

(* The profile selector: setProfile(p). *)
SetProfile(p) ==
  /\ Quiescent
  /\ p # profile
  /\ profile' = p
  /\ queue' = ProfileEffects
  /\ alerted' = "none"
  /\ last' = "setProfile"
  /\ snap' = [target |-> p, slot |-> storage[storageKey(p)]]
  /\ left' = [left EXCEPT ![profile] = <<db>>]
  /\ events' = events + 1
  /\ UNCHANGED <<variant, other, saver, tab, db, dbRef, storage, pendingDb, crashed, raw, reading,
                 artifact, now>>

(* Save panel / imaging / vitals / fitness / item / note of the full       *)
(* variant: setDb((p) => ({ ...p, c: [...p.c, form] })), unless a blank    *)
(* name or text makes the handler return early.                            *)
Add(c, form) ==
  /\ Quiescent
  /\ variant = "full"
  /\ tab = c
  /\ Size(db) < MaxRecs
  /\ IF Rejected(c, form)
       THEN UNCHANGED <<db, dbRef, queue, crashed>>
       ELSE /\ db' = addRecord(db, c, form)
            /\ dbRef' = "fresh"
            /\ Commit(tab, db', DbEffects(tab))
  /\ alerted' = "none"
  /\ last' = "add"
  /\ events' = events + 1
  /\ UNCHANGED <<variant, other, saver, profile, tab, storage, pendingDb, raw, reading, artifact, now,
                 snap, left>>

(* Delete of a history row: setDb((p) => ({ ...p, c: p.c.filter((b) => b.id !== id) })). *)
Del(c, id) ==
  /\ Quiescent
  /\ variant = "full"
  /\ tab = c
  /\ \E i \in 1..Len(db.c[c]) : db.c[c][i].id = Str(id)
  /\ db' = deleteRecord(db, c, id)
  /\ dbRef' = "fresh"
  /\ Commit(tab, db', DbEffects(tab))
  /\ alerted' = "none"
  /\ last' = "del"
  /\ events' = events + 1
  /\ UNCHANGED <<variant, other, saver, profile, tab, storage, pendingDb, raw, reading, artifact, now,
                 snap, left>>

(* Quick add of the minimal variant: a fixed panel, or a fixed note, dated today(). *)
QuickAdd(c, id) ==
  /\ Quiescent
  /\ variant = "minimal"
  /\ tab = "dashboard"
  /\ c \in {"bloods", "notes"}
  /\ Size(db) < MaxRecs
  /\ LET rec == IF c = "bloods"
                  THEN WithField(BaseRecord(id, now), "apoB", <<Num(85)>>)
                  ELSE WithField(BaseRecord(id, now), "text", <<TextValue("a")>>)
     IN db' = addRecord(db, c, rec)
  /\ dbRef' = "fresh"
  /\ Commit(tab, db', DbEffects(tab))
  /\ alerted' = "none"
  /\ last' = "add"
  /\ events' = events + 1
  /\ UNCHANGED <<variant, other, saver, profile, tab, storage, pendingDb, raw, reading, artifact, now,
                 snap, left>>

(* The calendar date advances. *)
Tick ==
  /\ variant = "minimal"
  /\ now < NumDates
  /\ now' = now + 1
  /\ UNCHANGED <<variant, other, saver, profile, tab, db, dbRef, storage, queue, pendingDb, crashed,
                 alerted, raw, reading, artifact, last, snap, left, events>>

----------------------------------------------------------------------------
(* Import, export, reset. *)

(* The editor's onChange: setRaw(e.target.value). *)
SetRaw(text) ==
  /\ Quiescent /\ events' = events + 1
  /\ tab = "importExport"
  /\ text # raw
  /\ raw' = text
  /\ alerted' = "none"
  /\ last' = "setRaw"
  /\ UNCHANGED <<variant, other, saver, profile, tab, db, dbRef, storage, queue, pendingDb, crashed,
                 reading, artifact, now, snap, left>>

(* Minimal variant, Export JSON: setRaw(JSON.stringify(db, null, 2)); the  *)
(* exported document is the editor's new content.                          *)
exportJson ==
  /\ Quiescent /\ events' = events + 1
  /\ variant = "minimal"
  /\ tab = "importExport"
  /\ raw' = JSONstringify(db, 2)
  /\ artifact' = JSONstringify(db, 2)
  /\ alerted' = "none"
  /\ last' = "export"
  /\ UNCHANGED <<variant, other, saver, profile, tab, db, dbRef, storage, queue, pendingDb, crashed,
                 reading, now, snap, left>>

(* Full variant, Export JSON: download() puts the editor's text in the file. *)
download ==
  /\ Quiescent /\ events' = events + 1
  /\ variant = "full"
  /\ tab = "importExport"
  /\ artifact' = raw
  /\ alerted' = "none"
  /\ last' = "export"
  /\ UNCHANGED <<variant, other, saver, profile, tab, db, dbRef, storage, queue, pendingDb, crashed,
                 raw, reading, now, snap, left>>

(* A slip: a catch branch that also clears the ledger. *)
importJsonClearing ==
  /\ Quiescent
  /\ variant = "minimal"
  /\ tab = "importExport"
  /\ IF ParseThrows(raw)
       THEN /\ alerted' = "invalid"
            /\ db' = EMPTY
            /\ dbRef' = "EMPTY"
            /\ Commit(tab, EMPTY, DbEffects(tab))
       ELSE /\ alerted' = "imported"
            /\ db' = JSONparse(raw)
            /\ dbRef' = "fresh"
            /\ Commit(tab, JSONparse(raw), DbEffects(tab))
  /\ last' = "import"
  /\ events' = events + 1
  /\ UNCHANGED <<variant, other, saver, profile, tab, storage, pendingDb, raw, reading, artifact, now,
                 snap, left>>

(* Minimal variant, Import JSON: parse the editor's text; setDb(parsed)    *)
(* and alert("Imported ..."), or alert("Invalid JSON").                    *)
importJson ==
  /\ Quiescent
  /\ variant = "minimal"
  /\ tab = "importExport"
  /\ IF ParseThrows(raw)
       THEN /\ alerted' = "invalid"
            /\ UNCHANGED <<db, dbRef, queue, crashed>>
       ELSE /\ alerted' = "imported"
            /\ db' = JSONparse(raw)
            /\ dbRef' = "fresh"
            /\ Commit(tab, JSONparse(raw), DbEffects(tab))
  /\ last' = "import"
  /\ events' = events + 1
  /\ UNCHANGED <<variant, other, saver, profile, tab, storage, pendingDb, raw, reading, artifact, now,
                 snap, left>>

(* Full variant, Import JSON: upload() starts a FileReader on the chosen file. *)
upload(text) ==
  /\ Quiescent
  /\ variant = "full"
  /\ tab = "importExport"
  /\ ~reading.active
  /\ reading' = [active |-> TRUE, text |-> text, mounted |-> TRUE]
  /\ alerted' = "none"
  /\ last' = "upload"
  /\ events' = events + 1
  /\ UNCHANGED <<variant, other, saver, profile, tab, db, dbRef, storage, queue, pendingDb, crashed,
                 raw, artifact, now, snap, left>>

(* reader.onload: parse the file's text; setDb(obj) and                    *)
(* setRaw(JSON.stringify(obj, null, 2)) (the latter only reaches a panel   *)
(* that is still mounted), or alert("Invalid file").                       *)
readerOnload ==
  /\ Quiescent
  /\ reading.active
  /\ IF ParseThrows(reading.text)
       THEN /\ alerted' = "invalid"
            /\ UNCHANGED <<db, dbRef, queue, crashed, raw>>
       ELSE /\ alerted' = "none"
            /\ db' = JSONparse(reading.text)
            /\ dbRef' = "fresh"
            /\ raw' = IF reading.mounted
                        THEN JSONstringify(JSONparse(reading.text), 2)
                        ELSE raw
            /\ Commit(tab, JSONparse(reading.text), DbEffects(tab))
  /\ reading' = NoReading
  /\ last' = "import"
  /\ UNCHANGED <<variant, other, saver, profile, tab, storage, pendingDb, artifact, now, snap, left,
                 events>>

(* A slip: a reset that does not look at the answer to confirm(). *)
resetAllUnconfirmed(confirmed) ==
  /\ Quiescent
  /\ tab = "importExport"
  /\ IF dbRef # "EMPTY"
       THEN /\ db' = [k |-> "object", c |-> [c \in Collections |-> <<>>]]
            /\ dbRef' = "EMPTY"
            /\ Commit(tab, db', DbEffects(tab))
       ELSE UNCHANGED <<db, dbRef, queue, crashed>>
  /\ alerted' = "none"
  /\ last' = IF confirmed THEN "reset" ELSE "resetDeclined"
  /\ events' = events + 1
  /\ UNCHANGED <<variant, other, saver, profile, tab, storage, pendingDb, raw, reading, artifact, now,
                 snap, left>>

(* Clear all: if (confirm(...)) setDb(EMPTY).  Setting EMPTY over EMPTY    *)
(* itself schedules nothing.                                               *)
resetAll(confirmed) ==
  /\ Quiescent
  /\ tab = "importExport"
  /\ IF confirmed /\ dbRef # "EMPTY"
       THEN /\ db' = EMPTY
            /\ dbRef' = "EMPTY"
            /\ Commit(tab, EMPTY, DbEffects(tab))
       ELSE UNCHANGED <<db, dbRef, queue, crashed>>
  /\ alerted' = "none"
  /\ last' = IF confirmed THEN "reset" ELSE "resetDeclined"
  /\ events' = events + 1
  /\ UNCHANGED <<variant, other, saver, profile, tab, storage, pendingDb, raw, reading, artifact, now,
                 snap, left>>

----------------------------------------------------------------------------
(* The exploration stops taking user events after MaxEvents of them. *)
Budget == events < MaxEvents

Next ==
  \/ RunLoad
  \/ RunSave
  \/ RunSyncRaw
  \/ Rerender
  \/ readerOnload
  \/ Tick
  \/ \E t \in TABS : Budget /\ SetTab(t)
  \/ \E p \in PROFILES : Budget /\ SetProfile(p)
  \/ \E c \in Collections : \E form \in FormRecords(c) : Budget /\ Add(c, form)
  \/ \E c \in Collections : \E id \in Ids : Budget /\ Del(c, id)
  \/ \E c \in Collections : \E id \in Ids : Budget /\ QuickAdd(c, id)
  \/ \E text \in Docs : Budget /\ SetRaw(text)
  \/ Budget /\ exportJson
  \/ Budget /\ download
  \/ Budget /\ importJson
  \/ \E text \in Docs : Budget /\ upload(text)
  \/ \E confirmed \in BOOLEAN : Budget /\ resetAll(confirmed)

Spec == Init /\ [][Next]_vars

(* A fresh installation of the full variant, used through its forms and   *)
(* the profile selector only: every record in memory was made by an add    *)
(* form (and possibly saved and loaded again).                             *)
InitForms ==
  /\ Init
  /\ variant = "full"
  /\ storage = [k \in Keys |-> NoItem]

BudgetForms == events < MaxEvents + 1

NextForms ==
  \/ RunLoad
  \/ RunSave
  \/ Rerender
  \/ \E t \in TABS \ {"importExport"} : BudgetForms /\ SetTab(t)
  \/ \E p \in PROFILES : BudgetForms /\ SetProfile(p)
  \/ \E c \in Collections : \E form \in FormRecords(c) : BudgetForms /\ Add(c, form)
  \/ \E c \in Collections : \E id \in Ids : BudgetForms /\ Del(c, id)

SpecForms == InitForms /\ [][NextForms]_vars

----------------------------------------------------------------------------
(* Properties. *)

ActiveSlot == storage[storageKey(profile)]
OtherProfile(p) == CHOOSE q \in PROFILES : q # p

(* C1: whenever the running application is quiescent (no effect pending,   *)
(* no render pending, no crash), so in particular after an add, a delete,  *)
(* a successful import or a confirmed reset has completed, the slot of the *)
(* active profile holds exactly JSON.stringify(db).                        *)
C1_SlotHoldsLedger == Quiescent => ActiveSlot = JSONstringify(db, 0)

C1_Witness ==
  /\ Quiescent
  /\ last = "del"
  /\ left[OtherProfile(profile)] # NotLeft
  /\ ActiveSlot = JSONstringify(db, 0)

(* C2: once a profile switch to P has completed, the active profile is P   *)
(* and db is the value P's slot held just before the switch, or the empty  *)
(* ledger when that slot was absent (or held no JSON).                     *)
C2_SwitchLoadsTarget ==
  (Quiescent /\ last = "setProfile") =>
    /\ profile = snap.target
    /\ db = IF snap.slot.kind = "json" THEN snap.slot.v ELSE EMPTY

C2_Witness ==
  /\ Quiescent
  /\ last = "setProfile"
  /\ snap.slot = JSONstringify(StoredLedger, 0)
  /\ left[OtherProfile(profile)] = <<DocLedger>>
  /\ db = StoredLedger

(* C3: no step writes the slot of a profile other than the active one. *)
C3_OtherSlotsUnchanged ==
  [][\A q \in PROFILES :
       q # profile => storage'[storageKey(q)] = storage[storageKey(q)]]_vars

C3_Witness ==
  /\ Quiescent
  /\ last \in {"add", "del", "import", "reset"}
  /\ ActiveSlot = JSONstringify(db, 0)
  /\ storage[storageKey(OtherProfile(profile))] = JSONstringify(StoredLedger, 0)
  /\ db # StoredLedger

(* C4: after switching away from a profile and back, db equals the ledger  *)
(* that was in memory when the profile was left.                           *)
C4_ReturnRestores ==
  (Quiescent /\ last = "setProfile" /\ left[profile] # NotLeft) => db = left[profile][1]

(* C5: the load effect never fails, and what it hands to setDb is the      *)
(* parsed slot when the slot holds JSON and the empty ledger otherwise.    *)
C5_LoadNeverFails ==
  /\ crashed # "effect"
  /\ (pendingDb.set /\ queue = <<"save">>) =>
       pendingDb.val = IF ActiveSlot.kind = "json" THEN ActiveSlot.v ELSE EMPTY

(* C6: an import of a text that is not JSON raises the invalid-input alert *)
(* and changes neither db, nor the active profile, nor any slot.           *)
C6_InvalidImportRejected ==
  [][((importJson /\ raw.kind # "json") \/ (readerOnload /\ reading.text.kind # "json"))
       => (alerted' = "invalid" /\ db' = db /\ profile' = profile /\ storage' = storage)]_vars

C6_Witness ==
  /\ last = "import"
  /\ alerted = "invalid"
  /\ db = StoredLedger

(* C7: an import of a JSON text makes db the value the text denotes,       *)
(* whatever db held and whatever the shape of the value.                   *)
C7_ImportReplaces ==
  [][/\ (importJson /\ raw.kind = "json") => db' = raw.v
     /\ (readerOnload /\ reading.text.kind = "json") => db' = reading.text.v]_vars

C7_Witness ==
  /\ last = "import"
  /\ db = DocLedger
  /\ ActiveSlot = JSONstringify(StoredLedger, 0)

(* C8: no render throws. *)
C8_NoCrash == crashed # "render"

(* C9: a ledger made through the add forms survives JSON.stringify then    *)
(* JSON.parse unchanged.                                                   *)
C9_RoundTrip == JSONparse(JSONstringify(db, 0)) = db

(* The index latestOf is to return: the last record among those of the     *)
(* maximum date.                                                           *)
LastMaxIndex(coll) ==
  CHOOSE i \in 1..Len(coll) :
    /\ \A j \in 1..Len(coll) : coll[j].date.n <= coll[i].date.n
    /\ \A j \in (i + 1)..Len(coll) : coll[j].date.n < coll[i].date.n

(* C10: latestOf of an empty collection is none; of a non-empty one it is  *)
(* the record inserted last among those of the maximum date.               *)
C10_LatestOf ==
  db.k = "object" =>
    \A c \in DOMAIN db.c :
      latestOf(db.c[c]) =
        IF db.c[c] = <<>> THEN <<>> ELSE <<db.c[c][LastMaxIndex(db.c[c])]>>

C10_Witness ==
  /\ db.k = "object"
  /\ \E c \in DOMAIN db.c :
       /\ Len(db.c[c]) = 2
       /\ db.c[c][1].date = db.c[c][2].date
       /\ db.c[c][1] # db.c[c][2]
       /\ latestOf(db.c[c]) = <<db.c[c][2]>>

----------------------------------------------------------------------------
(* The blood panel whose ApoB, LDL and A1c the dashboard shows: latestBlood *)
(* in the full variant, summary's recentBlood (db.bloods.at(-1)) in the     *)
(* minimal one.                                                             *)
dashboardBlood(vr, v) ==
  IF vr = "full" THEN latestOf(v.c.bloods) ELSE recentBlood(v.c.bloods)

MaxDate(coll) == CHOOSE d \in {coll[i].date.n : i \in 1..Len(coll)} :
                   \A j \in 1..Len(coll) : coll[j].date.n <= d

(* C11: in both variants the panel shown on the dashboard is a panel of     *)
(* the maximum date of db.bloods, whatever the order the panels are held in. *)
C11_DashboardShowsMaxDate ==
  (crashed = "no" /\ db.k = "object" /\ "bloods" \in DOMAIN db.c /\ db.c.bloods # <<>>)
    => dashboardBlood(variant, db)[1].date.n = MaxDate(db.c.bloods)

(* The records of coll whose identifier is not id, in their order in coll. *)
Kept(coll, id) == {i \in 1..Len(coll) : coll[i].id # Str(id)}
Without(coll, id) ==
  [k \in 1..Cardinality(Kept(coll, id)) |->
     coll[CHOOSE i \in Kept(coll, id) :
            Cardinality({j \in Kept(coll, id) : j <= i}) = k]]

(* C12: for every ledger the application holds, the collection of the open *)
(* history tab and every identifier, deleteRecord leaves in the collection *)
(* exactly the records of another identifier, in their order, and leaves   *)
(* the other collections alone; with no record of that identifier the      *)
(* ledger is unchanged, so a second delete changes nothing.                *)
C12_DeleteRecord ==
  (crashed = "no" /\ db.k = "object") =>
    \A c \in {tab} \cap DOMAIN db.c : \A id \in Ids :
      LET d == deleteRecord(db, c, id) IN
        /\ d.c[c] = Without(db.c[c], id)
        /\ \A o \in DOMAIN db.c \ {c} : d.c[o] = db.c[o]
        /\ DOMAIN d.c = DOMAIN db.c
        /\ (Kept(db.c[c], id) = 1..Len(db.c[c]) => d = db)
        /\ deleteRecord(d, c, id) = d

(* A delete has left the second of two records that were added, and a      *)
(* delete of the removed identifier is now a no-op.                        *)
C12_Witness ==
  /\ Quiescent /\ last = "del"
  /\ \E c \in Collections :
       /\ Len(db.c[c]) = 1
       /\ db.c[c][1].id = Str(2)
       /\ deleteRecord(db, c, 1) = db
       /\ deleteRecord(db, c, 2).c[c] = <<>>

(* What an add that appended rec to collection c leaves. *)
Appended(old, new, c, rec) ==
  /\ new.k = "object" /\ DOMAIN new.c = DOMAIN old.c
  /\ Len(new.c[c]) = Len(old.c[c]) + 1
  /\ \A i \in 1..Len(old.c[c]) : new.c[c][i] = old.c[c][i]
  /\ new.c[c][Len(new.c[c])] = rec
  /\ \A o \in DOMAIN old.c \ {c} : new.c[o] = old.c[o]

(* The records the quick add of the minimal variant can build: a panel     *)
(* with ApoB 85 (addBlood) or a note (addNote), dated today().             *)
QuickRecords(c) ==
  IF c = "bloods"
    THEN {[id |-> Str(id), date |-> Str(now), apoB |-> Num(85)] : id \in Ids}
    ELSE {[id |-> Str(id), date |-> Str(now), text |-> TextValue("a")] : id \in Ids}

(* The collection an add handler of the running variant works on, and the  *)
(* records it can be given.                                                *)
AddTargets == IF variant = "full" THEN {tab} \cap Collections ELSE {"bloods", "notes"}
AddRecords(c) == IF variant = "full" THEN FormRecords(c) ELSE QuickRecords(c)

(* C14: an add step that changes the ledger appends one record of its form *)
(* at the end of its collection: the records already there keep their      *)
(* positions, the length grows by one and the other five collections are   *)
(* unchanged.  (An add step that leaves the ledger as it was is a rejected *)
(* blank medication or note.)                                              *)
C14_AddAppends ==
  [][(last' = "add" /\ events' # events) =>
       \/ db' = db /\ variant = "full" /\ tab \in {"meds", "notes"}
       \/ \E c \in AddTargets :
            /\ db'.c[c] # <<>>
            /\ db'.c[c][Len(db'.c[c])] \in AddRecords(c)
            /\ Appended(db, db', c, db'.c[c][Len(db'.c[c])])
    ]_vars

(* An older-dated record was added after a newer-dated one and is held     *)
(* after it.                                                               *)
C14_Witness ==
  /\ Quiescent /\ last = "add"
  /\ \E c \in Collections :
       /\ Len(db.c[c]) = 2
       /\ db.c[c][1].date = Str(2) /\ db.c[c][2].date = Str(1)
       /\ db.c[c][1].id # db.c[c][2].id

(* C13: no two records of a collection of db have the same identifier. *)
C13_UniqueIds ==
  (crashed = "no" /\ db.k = "object") =>
    \A c \in DOMAIN db.c : \A i, j \in 1..Len(db.c[c]) :
      db.c[c][i].id = db.c[c][j].id => i = j

(* C15: a reset whose prompt is accepted makes db the empty ledger, and the *)
(* save that follows writes the empty ledger to the active profile's slot; *)
(* a reset whose prompt is declined changes neither db, nor the profile,   *)
(* nor any slot, and schedules nothing; in both cases no slot of another   *)
(* profile changes.                                                        *)
C15_ResetGated ==
  [][/\ resetAll(TRUE) => (db' = EMPTY /\ storage' = storage /\ profile' = profile)
     /\ resetAll(FALSE) =>
          (db' = db /\ storage' = storage /\ profile' = profile /\ queue' = queue)
     /\ (last = "reset" /\ storage' # storage) =>
          /\ storage'[storageKey(profile)] = JSONstringify(EMPTY, 0)
          /\ \A q \in PROFILES \ {profile} :
               storage'[storageKey(q)] = storage[storageKey(q)]
     /\ last = "resetDeclined" => storage' = storage
    ]_vars

(* A confirmed reset of a profile that held a ledger (downloaded just      *)
(* before) has been saved, and the other profile's slot still holds its    *)
(* ledger.                                                                 *)
C15_Witness ==
  /\ Quiescent /\ last = "reset"
  /\ artifact = JSONstringify(StoredLedger, 2)
  /\ db = EMPTY
  /\ ActiveSlot = JSONstringify(EMPTY, 0)
  /\ storage[storageKey(OtherProfile(profile))] = JSONstringify(StoredLedger, 0)

(* The empty text and the text made of a blank. *)
BlankValues == {TextValue(""), TextValue(" ")}

(* C16: saving the medication form with a blank name, or the note form     *)
(* with a blank text, appends nothing: a save of one of these forms either *)
(* leaves db, the slots and the scheduled effects as they were, alerting   *)
(* nothing and crashing nothing, or appends a record whose name or text is *)
(* not blank.                                                              *)
C16_BlankRejected ==
  [][(last' = "add" /\ events' # events /\ variant = "full" /\ tab \in {"meds", "notes"}) =>
       \/ /\ db' = db /\ storage' = storage /\ queue' = queue
          /\ alerted' = "none" /\ crashed' = crashed
       \/ /\ Len(db'.c[tab]) = Len(db.c[tab]) + 1
          /\ db'.c[tab][Len(db'.c[tab])][IF tab = "meds" THEN "name" ELSE "text"]
               \notin BlankValues
    ]_vars

(* The medication or note form was saved and its collection is still empty. *)
C16_Witness ==
  /\ last = "add" /\ tab \in {"meds", "notes"}
  /\ crashed = "no"
  /\ db.c[tab] = <<>>

(* C17: the document an export produced is JSON.stringify(db, null, 2) of  *)
(* the ledger in memory at the export, whatever the editor held before.    *)
C17_ExportIsLedger == last = "export" => artifact = JSONstringify(db, 2)

Reverse(s) == [i \in 1..Len(s) |-> s[Len(s) + 1 - i]]

(* The place of coll[i] in a descending order that keeps the records of    *)
(* one date in their order in coll.                                        *)
DescRank(coll, i) ==
  1 + Cardinality({j \in 1..Len(coll) :
                     \/ coll[j].date.n > coll[i].date.n
                     \/ coll[j].date.n = coll[i].date.n /\ j < i})

DistinctDates(coll) ==
  \A i, j \in 1..Len(coll) : coll[i].date = coll[j].date => i = j

(* C18 as stated: the history order shown on the open tab is the reverse   *)
(* of the stable ascending order of its collection, also among records of  *)
(* one date.                                                               *)
C18_DescendingIsReverse ==
  (crashed = "no" /\ db.k = "object") =>
    \A c \in {tab} \cap DOMAIN db.c :
      sortedDescending(db.c[c]) = Reverse(StableSort(db.c[c], "asc"))

(* C18 as amended: the history order shown on the open tab is a            *)
(* permutation of its collection with non-increasing dates in which the    *)
(* records of one date keep their insertion order; it is the reverse of    *)
(* the stable ascending order when no two records of the collection share  *)
(* a date.                                                                 *)
C18_DescendingStable ==
  (crashed = "no" /\ db.k = "object") =>
    \A c \in {tab} \cap DOMAIN db.c :
      LET coll == db.c[c]
          s == sortedDescending(coll) IN
        /\ Len(s) = Len(coll)
        /\ \A i \in 1..Len(coll) : s[DescRank(coll, i)] = coll[i]
        /\ \A k \in 1..(Len(s) - 1) : s[k].date.n >= s[k + 1].date.n
        /\ DistinctDates(coll) => s = Reverse(StableSort(coll, "asc"))

(* Two different records of one date: the history shows them in insertion  *)
(* order, the reverse of the ascending order shows them swapped.           *)
C18_Witness ==
  /\ crashed = "no" /\ db.k = "object"
  /\ \E c \in {tab} \cap DOMAIN db.c :
       /\ Len(db.c[c]) = 2
       /\ db.c[c][1].date = db.c[c][2].date
       /\ db.c[c][1] # db.c[c][2]
       /\ sortedDescending(db.c[c]) = db.c[c]
       /\ Reverse(StableSort(db.c[c], "asc")) = <<db.c[c][2], db.c[c][1]>>

(* The numeric measurements of the add forms modelled here. *)
NumericFields == {"apoB"}

(* C19: a numeric measurement held by a record of db is a number: a        *)
(* measurement whose input was empty when the record was saved is absent,  *)
(* and no placeholder stands for it, in memory or in the slot.             *)
C19_EmptyInputAbsent ==
  (crashed = "no" /\ db.k = "object") =>
    /\ \A c \in DOMAIN db.c : \A i \in 1..Len(db.c[c]) :
         \A f \in DOMAIN db.c[c][i] \cap NumericFields : db.c[c][i][f].k = "number"
    /\ (ActiveSlot.kind = "json" /\ ActiveSlot.v.k = "object") =>
         \A c \in DOMAIN ActiveSlot.v.c : \A i \in 1..Len(ActiveSlot.v.c[c]) :
           \A f \in DOMAIN ActiveSlot.v.c[c][i] \cap NumericFields :
             ActiveSlot.v.c[c][i][f].k = "number"

----------------------------------------------------------------------------
(* Two instances of the application (two browser tabs) on one profile.     *)
(* They share localStorage and the clock; each has its own React state.    *)
(* The variables profile .. artifact are the state of the instance that    *)
(* takes the next step, other is the state of the second one.              *)

(* The other instance takes the next steps.  Neither source variant        *)
(* listens to the storage event, so an instance sees nothing of the        *)
(* other's writes until it loads again.                                    *)
SwitchInstance ==
  /\ other' = [profile |-> profile, tab |-> tab, db |-> db, dbRef |-> dbRef,
               queue |-> queue, pendingDb |-> pendingDb, crashed |-> crashed,
               alerted |-> alerted, raw |-> raw, reading |-> reading,
               artifact |-> artifact]
  /\ profile' = other.profile /\ tab' = other.tab
  /\ db' = other.db /\ dbRef' = other.dbRef
  /\ queue' = other.queue /\ pendingDb' = other.pendingDb
  /\ crashed' = other.crashed /\ alerted' = other.alerted
  /\ raw' = other.raw /\ reading' = other.reading /\ artifact' = other.artifact
  /\ saver' = IF saver = "here" THEN "there" ELSE IF saver = "there" THEN "here" ELSE saver
  /\ UNCHANGED <<variant, storage, now, last, snap, left, events>>

InitTabs ==
  /\ Init
  /\ storage[storageKey("Claire")] = NoItem

(* The two instances together take one user event fewer than one alone. *)
BudgetTabs == events < MaxEvents - 1

(* The tabs opened in the two-instance exploration. *)
TabsOpened == {"dashboard", "bloods", "notes"}

NextTabs ==
  \/ RunLoad
  \/ RunSave
  \/ Rerender
  \/ Tick
  \/ SwitchInstance
  \/ \E t \in TabsOpened : BudgetTabs /\ SetTab(t)
  \/ \E c \in TabsOpened \ {"dashboard"} : \E form \in FormRecords(c) : BudgetTabs /\ Add(c, form)
  \/ \E c \in TabsOpened \ {"dashboard"} : \E id \in Ids : BudgetTabs /\ Del(c, id)
  \/ \E c \in TabsOpened \ {"dashboard"} : \E id \in Ids : BudgetTabs /\ QuickAdd(c, id)

SpecTabs == InitTabs /\ [][NextTabs]_vars

OtherQuiescent == other.crashed = "no" /\ other.queue = <<>> /\ ~other.pendingDb.set

(* The records of a collection as a set. *)
RecordsOf(coll) == {coll[i] : i \in 1..Len(coll)}

(* C20: with two instances on one profile, after every step the slot holds *)
(* the ledger of the instance that saved last (once that instance is       *)
(* quiescent), whatever the other instance holds or wrote; and a write to  *)
(* the slot changes no instance's memory, so no instance picks up the      *)
(* other's records before it saves.                                        *)
C20_LastWriterWins ==
  [][/\ (saver' = "here" /\ Quiescent') =>
          storage'[storageKey(profile')] = JSONstringify(db', 0)
     /\ (saver' = "there" /\ OtherQuiescent') =>
          storage'[storageKey(other'.profile)] = JSONstringify(other'.db, 0)
     /\ storage' # storage => (db' = db /\ other' = other)
    ]_vars

(* Both instances are quiescent; the second one holds a record the first   *)
(* never loaded; the first saved last and the slot holds the first's       *)
(* ledger, without that record.                                            *)
C20_Witness ==
  /\ Quiescent /\ OtherQuiescent
  /\ saver = "here"
  /\ profile = other.profile
  /\ \E c \in Collections :
       /\ RecordsOf(other.db.c[c]) \ RecordsOf(db.c[c]) # {}
       /\ RecordsOf(other.db.c[c]) \ RecordsOf(ActiveSlot.v.c[c]) # {}
  /\ ActiveSlot = JSONstringify(db, 0)

----------------------------------------------------------------------------
(* C21: every write to a slot writes a ledger of that slot's profile.      *)
(* During startup a slot that holds a ledger is not rewritten with another *)
(* value, and until the first user event after a switch to profile P every *)
(* write to P's slot writes the ledger P's slot held before the switch     *)
(* (the empty ledger when it held none).                                   *)
C21_WritesOwnLedger ==
  [][/\ (last = "mount" /\ ActiveSlot.kind = "json") =>
          storage'[storageKey(profile)] = ActiveSlot
     /\ (last = "setProfile" /\ storage' # storage) =>
          storage'[storageKey(profile)] =
            JSONstringify(IF snap.slot.kind = "json" THEN snap.slot.v ELSE EMPTY, 0)
    ]_vars

----------------------------------------------------------------------------
(* Startup on a stored ledger, with the mount effects run once or, as      *)
(* React's StrictMode does in development, twice in a row (load, save,     *)
(* load, save) before the render that applies the setDb calls; the last    *)
(* setDb wins.                                                             *)
InitStrict ==
  /\ variant \in Variants
  /\ profile = "Paul"
  /\ tab = "dashboard"
  /\ db = EMPTY
  /\ dbRef = "EMPTY"
  /\ storage \in {st \in [Keys -> InitSlots] :
                    st[storageKey("Paul")] = JSONstringify(StoredLedger, 0)}
  /\ queue \in {ProfileEffects, ProfileEffects \o ProfileEffects}
  /\ pendingDb = NoPending
  /\ crashed = "no"
  /\ alerted = "none"
  /\ raw = EmptyText
  /\ reading = NoReading
  /\ artifact = NoItem
  /\ now = 1
  /\ last = "mount"
  /\ snap = NoSnap
  /\ left = [p \in PROFILES |-> NotLeft]
  /\ events = 0
  /\ other = Mounting
  /\ saver = "none"

NextStrict ==
  \/ RunLoad
  \/ RunSave
  \/ Rerender
  \/ \E t \in TabsOpened : Budget /\ SetTab(t)
  \/ \E p \in PROFILES : Budget /\ SetProfile(p)
  \/ \E c \in TabsOpened \ {"dashboard"} : \E form \in FormRecords(c) : Budget /\ Add(c, form)
  \/ \E c \in TabsOpened \ {"dashboard"} : \E id \in Ids : Budget /\ QuickAdd(c, id)

SpecStrict == InitStrict /\ [][NextStrict]_vars

(* C22: when the application has started on a slot holding the ledger L    *)
(* and its mount effects and the render they ask for are done, db is L and *)
(* the slot holds L.                                                       *)
C22_StartupKeepsLedger ==
  (Quiescent /\ last = "mount") =>
    /\ db = StoredLedger
    /\ ActiveSlot = JSONstringify(StoredLedger, 0)

----------------------------------------------------------------------------
(* C23: the completion callback of a file read during which the profile    *)
(* was switched (the last user event was the switch, the read was started  *)
(* before it) leaves the ledger of the profile that is now active, and     *)
(* every slot, as they are.                                                *)
C23_ImportStaysInProfile ==
  [][(reading.active /\ last = "setProfile" /\ last' = "import") =>
       (db' = db /\ queue' = queue /\ storage' = storage)]_vars

----------------------------------------------------------------------------
(* The first record of the maximum date. *)
FirstMaxIndex(coll) ==
  CHOOSE i \in 1..Len(coll) :
    /\ \A j \in 1..Len(coll) : coll[j].date.n <= coll[i].date.n
    /\ \A j \in 1..(i - 1) : coll[j].date.n < coll[i].date.n

(* C24 as stated: the first row of the history shown on the open tab is    *)
(* latestOf of its collection, also when records share the maximum date.   *)
C24_FirstRowIsLatest ==
  (crashed = "no" /\ db.k = "object") =>
    \A c \in {tab} \cap DOMAIN db.c :
      db.c[c] # <<>> => <<sortedDescending(db.c[c])[1]>> = latestOf(db.c[c])

(* C24 as amended: the first row of the history shown on the open tab is   *)
(* the record inserted first among those of the maximum date, latestOf is  *)
(* the one inserted last among them; they are the same record when one     *)
(* record only has the maximum date.                                       *)
C24_FirstRowIsFirstOfLatest ==
  (crashed = "no" /\ db.k = "object") =>
    \A c \in {tab} \cap DOMAIN db.c :
      db.c[c] # <<>> =>
        /\ sortedDescending(db.c[c])[1] = db.c[c][FirstMaxIndex(db.c[c])]
        /\ latestOf(db.c[c]) = <<db.c[c][LastMaxIndex(db.c[c])]>>
        /\ FirstMaxIndex(db.c[c]) = LastMaxIndex(db.c[c]) =>
             <<sortedDescending(db.c[c])[1]>> = latestOf(db.c[c])

(* Two different records share the maximum date: the history starts with   *)
(* the first, latestOf is the second.                                      *)
C24_Witness ==
  /\ crashed = "no" /\ db.k = "object"
  /\ \E c \in {tab} \cap DOMAIN db.c :
       /\ Len(db.c[c]) = 2
       /\ db.c[c][1].date = db.c[c][2].date
       /\ db.c[c][1] # db.c[c][2]
       /\ sortedDescending(db.c[c])[1] = db.c[c][1]
       /\ latestOf(db.c[c]) = <<db.c[c][2]>>
       /\ last = "add"

====
